---------------------------- MODULE Spec2Model ----------------------------
(***************************************************************************)
(* Model of SecurityPkg/Tcg/Tcg2AcpiFfa/Tcg2AcpiFfa.c: the in-place        *)
(* patching of the TPM SSDT (UpdatePPVersion, UpdateHID,                   *)
(* UpdatePossibleResource) and the order in which PublishAcpiTable calls   *)
(* them before InstallAcpiTable.                                           *)
(*                                                                         *)
(* Memory is a function from byte offsets (relative to Table) to bytes.    *)
(* Offsets 0 .. Length-1 are the table; the Slack bytes that follow are    *)
(* whatever memory lies behind the table (their value is not determined    *)
(* by the program, so Init draws it).  Table->Length is decoded from the   *)
(* header bytes 4..7.  DEBUG prints and has no effect.  What a failing     *)
(* ASSERT / ASSERT_EFI_ERROR does depends on how DebugLib is built: it     *)
(* either stops the processor (CpuDeadLoop / CpuBreakpoint) or does        *)
(* nothing, the statement that follows being executed; AssertHalts says    *)
(* which of the two this build does.                                       *)
(***************************************************************************)
EXTENDS Integers, Sequences, FiniteSets, TLC

VARIABLES
  Table,                \* memory at Table: the SSDT bytes followed by Slack bytes
  Entry,                \* Table as it was when the last patch function was entered
  pc,                   \* position of PublishAcpiTable
  Called,               \* the patch function that ran last ("none" at start)
  Status,               \* EFI_STATUS held by PublishAcpiTable's Status variable
  IsShortFormPkgLength, \* PublishAcpiTable's local flag
  ReadMax,              \* highest offset read by the anchor comparisons of the last call
  Failed,               \* patch functions that reported an error status so far
  Published,            \* TRUE once InstallAcpiTable was called with Table
  PPVer,                \* PcdTcgPhysicalPresenceInterfaceVer, a sequence of chars (no NUL)
  Tpm,                  \* answers of the TPM: manufacturer id, firmware version, statuses
  CurrentIrqNum,        \* PcdTpm2CurrentIrqNum
  PossibleIrqNumBuf,    \* PcdTpm2PossibleIrqNumBuf, its bytes in memory order
  InstallStatus,        \* what InstallAcpiTable will answer
  AssertHalts           \* whether a failing ASSERT of DebugLib stops the processor

vars == <<Table, Entry, pc, Called, Status, IsShortFormPkgLength, ReadMax, Failed,
          Published, PPVer, Tpm, CurrentIrqNum, PossibleIrqNumBuf, InstallStatus,
          AssertHalts>>

---------------------------------------------------------------------------
(* Program constants *)

PHYSICAL_PRESENCE_VERSION_SIZE == 4
TPM_HID_PNP_SIZE == 8
TPM_HID_ACPI_SIZE == 9
TPM_PRS_RES_NAME_SIZE == 4
TPM_POS_RES_TEMPLATE_MIN_SIZE == 1 + 1 + 2 + 12 + 5 + 2
MAX_PRS_INT_BUF_SIZE == 15 * 4
HeaderSize == 36                      \* sizeof (EFI_ACPI_DESCRIPTION_HEADER)
AML_BYTE_PREFIX == 10
AML_WORD_PREFIX == 11
AML_DWORD_PREFIX == 12
AML_QWORD_PREFIX == 14
AML_STRING_PREFIX == 13
AML_BUFFER_OP == 17
AML_NOOP_OP == 163
ACPI_END_TAG_DESCRIPTOR == 121
ShortFormMax == 63                    \* largest PkgLength a lone PkgLeadByte holds

PHYSICAL_PRESENCE_VERSION_TAG == <<36, 80, 86>>            \* "$PV"
TPM_HID_TAG == <<78, 78, 78, 78, 48, 48, 48, 48>>          \* "NNNN0000"
TPM_PRS_RESL == <<82, 69, 83, 76>>                         \* "RESL"
TPM_PRS_RESS == <<82, 69, 83, 83>>                         \* "RESS"

(* Bounds of the model *)
Slack == 1          \* bytes of foreign memory modelled behind the table
TailPad == 30       \* bytes of other AML that may follow the two templates
ManyInterrupts == 64 \* interrupts of the largest Interrupt descriptor of a template
VendorData == 4078  \* data bytes of the vendor-defined descriptor of the largest template

---------------------------------------------------------------------------
(* Helpers: bytes and memory *)

Min(S) == CHOOSE x \in S : \A y \in S : x <= y
Max(S) == 0 - Min({ 0 - x : x \in S })

RECURSIVE Pow(_, _)
Pow(b, e) == IF e = 0 THEN 1 ELSE b * Pow(b, e - 1)

LE32(n) == << n % 256, (n \div 256) % 256, (n \div 65536) % 256, (n \div 16777216) % 256 >>

Fill(n, v) == [i \in 1..n |-> v]

ToMem(s) == [i \in 0..(Len(s) - 1) |-> s[i + 1]]

\* Table->Length: the UINT32 at offset 4 of EFI_ACPI_DESCRIPTION_HEADER
TableLength(T) == T[4] + T[5] * 256 + T[6] * 65536 + T[7] * 16777216

\* *(p) = v
Poke(T, p, v) == [T EXCEPT ![p] = v]

\* CopyMem (T + dst, src, n), src a sequence of bytes
CopyMem(T, dst, src, n) ==
  [i \in DOMAIN T |-> IF i >= dst /\ i < dst + n THEN src[i - dst + 1] ELSE T[i]]

\* SetMem (T + dst, n, v)
SetMem(T, dst, n, v) ==
  [i \in DOMAIN T |-> IF i >= dst /\ i < dst + n THEN v ELSE T[i]]

---------------------------------------------------------------------------
(* Library calls, modelled by what they do *)

\* CompareMem (T + p, name, n) == 0
CompareMem(T, p, name, n) == \A i \in 0..(n - 1) : T[p + i] = name[i + 1]

\* the last byte CompareMem (T + p, name, n) may read
CompareMemLastRead(p, n) == p + n - 1

\* AsciiStrCmp: while (*First != 0 && *First == *Second) advance; the index
\* at which the loop stops when it has reached index j (tag is followed by its NUL)
RECURSIVE AsciiStrCmpLoop(_, _, _, _)
AsciiStrCmpLoop(T, p, tag, j) ==
  IF T[p + j] # 0 /\ j < Len(tag) /\ T[p + j] = tag[j + 1]
    THEN AsciiStrCmpLoop(T, p, tag, j + 1)
    ELSE j

AsciiStrCmpStop(T, p, tag) == AsciiStrCmpLoop(T, p, tag, 0)

\* AsciiStrCmp ((CHAR8 *)(T + p), tag) == 0
AsciiStrCmp(T, p, tag) ==
  LET j == AsciiStrCmpStop(T, p, tag)
  IN  j = Len(tag) /\ T[p + j] = 0

\* the last byte of T that AsciiStrCmp ((CHAR8 *)(T + p), tag) reads
AsciiStrCmpLastRead(T, p, tag) == p + AsciiStrCmpStop(T, p, tag)

NoRead == 0 - 1
NotFound == 0 - 1

\* the first offset of a set of matches, NotFound when there is none
FirstOf(hits) == IF hits = {} THEN NotFound ELSE Min(hits)

\* the highest of a set of offsets read, NoRead when nothing was read
HighestOf(reads) == IF reads = {} THEN NoRead ELSE Max(reads)

\* the higher of two offsets read
Higher(a, b) == IF a > b THEN a ELSE b

\* the offsets a scan from..last visits when its first match is at
Visited(from, last, at) == IF at = NotFound THEN from..last ELSE from..at

\* the highest byte the comparisons of a tag scan read
TagScanReads(T, tag, from, last, at) ==
  HighestOf({ AsciiStrCmpLastRead(T, p, tag) : p \in Visited(from, last, at) })

\* for (DataPtr = from; DataPtr <= last; DataPtr += 1) if (AsciiStrCmp (DataPtr, tag) == 0) ...
\* the offset of the first match, NotFound when the loop runs out
TagScan(T, tag, from, last) == FirstOf({ p \in from..last : AsciiStrCmp(T, p, tag) })

\* AsciiStrCpyS ((CHAR8 *)(T + dst), DestMax, Source): Source without its NUL
AsciiStrCpyS(T, dst, DestMax, Source) ==
  IF Len(Source) >= DestMax
    THEN [Status |-> "EFI_BUFFER_TOO_SMALL", Table |-> T]
    ELSE [Status |-> "EFI_SUCCESS",
          Table |-> CopyMem(T, dst, Source \o << 0 >>, Len(Source) + 1)]

RECURSIVE Decimal(_)
Decimal(n) == IF n < 10 THEN << 48 + n >> ELSE Decimal(n \div 10) \o << 48 + (n % 10) >>

\* "%02d"
Format02d(n) == IF n < 10 THEN << 48 >> \o Decimal(n) ELSE Decimal(n)

\* AsciiSPrint (buf, size, "%02d%02d", a, b): the bytes written, NUL included
AsciiSPrint(size, a, b) ==
  LET full == Format02d(a) \o Format02d(b)
      n == IF Len(full) > size - 1 THEN size - 1 ELSE Len(full)
  IN  SubSeq(full, 1, n) \o << 0 >>

EFI_ERROR(st) == st # "EFI_SUCCESS"

---------------------------------------------------------------------------
(* UpdatePPVersion *)

\* what a patch function leaves: its return value, the table, the highest
\* offset its anchor comparisons read
Outcome(st, T, reads) == [Status |-> st, Table |-> T, Reads |-> reads]

\* the last offset the tag scan of UpdatePPVersion visits
PvScanLast(T) == TableLength(T) - PHYSICAL_PRESENCE_VERSION_SIZE

\* the body of the if, with the result r of AsciiStrCpyS
PvPatched(r, reads) == Outcome(r.Status, r.Table, reads)

\* the loop, its first match being at
PvLoop(T, Ver, at, reads) ==
  IF at = NotFound
    THEN Outcome("EFI_NOT_FOUND", T, reads)
    ELSE PvPatched(AsciiStrCpyS(T, at, PHYSICAL_PRESENCE_VERSION_SIZE, Ver), reads)

PvScanned(T, Ver, at) ==
  PvLoop(T, Ver, at, TagScanReads(T, PHYSICAL_PRESENCE_VERSION_TAG, HeaderSize, PvScanLast(T), at))

UpdatePPVersion(T, Ver) ==
  PvScanned(T, Ver, TagScan(T, PHYSICAL_PRESENCE_VERSION_TAG, HeaderSize, PvScanLast(T)))

---------------------------------------------------------------------------
(* UpdateHID *)

\* (ManufacturerID >> 24) == 0x00 || (ManufacturerID >> 24) == 0x20
IsPnpHID(ManufacturerID) == ManufacturerID[4] = 0 \/ ManufacturerID[4] = 32

\* the letters copied from ManufacturerID, the size given to AsciiSPrint
HidLetters(PnpHID) == IF PnpHID THEN 3 ELSE 4
HidPrintSize(PnpHID) == IF PnpHID THEN TPM_HID_PNP_SIZE - 3 ELSE TPM_HID_ACPI_SIZE - 4

\* Hid[] zeroed, then the n letters, then the text printed behind them
HidBytes(ManufacturerID, n, text) ==
  [i \in 1..TPM_HID_ACPI_SIZE |->
     IF i <= n THEN ManufacturerID[i]
     ELSE IF i - n <= Len(text) THEN text[i - n]
     ELSE 0]

\* the local Hid[TPM_HID_ACPI_SIZE] once filled
BuildHid(ManufacturerID, FirmwareVersion1) ==
  HidBytes(ManufacturerID, HidLetters(IsPnpHID(ManufacturerID)),
           AsciiSPrint(HidPrintSize(IsPnpHID(ManufacturerID)),
                       FirmwareVersion1[1], FirmwareVersion1[2]))

\* the patch at the matched tag
PatchHid(T, p, Hid, PnpHID) ==
  IF PnpHID
    THEN Poke(CopyMem(T, p, Hid, TPM_HID_PNP_SIZE), p + TPM_HID_PNP_SIZE, AML_NOOP_OP)
    ELSE CopyMem(T, p, Hid, TPM_HID_ACPI_SIZE)

\* the last offset the tag scan of UpdateHID visits
HidScanLast(T) == TableLength(T) - TPM_HID_PNP_SIZE

\* the loop, its first match being at
HidLoop(T, tpm, at, reads) ==
  IF at = NotFound
    THEN Outcome("EFI_NOT_FOUND", T, reads)
    ELSE Outcome(tpm.FirmwareStatus,
                 PatchHid(T, at, BuildHid(tpm.ManufacturerID, tpm.FirmwareVersion1),
                          IsPnpHID(tpm.ManufacturerID)),
                 reads)

HidScanned(T, tpm, at) ==
  HidLoop(T, tpm, at, TagScanReads(T, TPM_HID_TAG, HeaderSize, HidScanLast(T), at))

UpdateHID(T, tpm) ==
  IF EFI_ERROR(tpm.ManufacturerStatus)
    THEN Outcome(tpm.ManufacturerStatus, T, NoRead)
  ELSE IF EFI_ERROR(tpm.FirmwareStatus)
    THEN Outcome(tpm.FirmwareStatus, T, NoRead)
  ELSE HidScanned(T, tpm, TagScan(T, TPM_HID_TAG, HeaderSize, HidScanLast(T)))

---------------------------------------------------------------------------
(* UpdatePossibleResource *)

\* (UINT8 *)Table + Table->Length - (TPM_PRS_RES_NAME_SIZE + TPM_POS_RES_TEMPLATE_MIN_SIZE)
PrsScanLimit(T) == TableLength(T) - (TPM_PRS_RES_NAME_SIZE + TPM_POS_RES_TEMPLATE_MIN_SIZE)

\* for (DataPtr = Table + 1; DataPtr < limit; DataPtr += 1) if (CompareMem (DataPtr, name, 4) == 0) ...
\* the offset at which the name scan breaks out, NotFound when it runs out
FindName(T, name) ==
  FirstOf({ p \in HeaderSize..(PrsScanLimit(T) - 1) :
              CompareMem(T, p, name, TPM_PRS_RES_NAME_SIZE) })

\* the highest byte the name scan compares, its first match being at
FindNameReads(T, at) ==
  HighestOf({ CompareMemLastRead(p, TPM_PRS_RES_NAME_SIZE) :
                p \in Visited(HeaderSize, PrsScanLimit(T) - 1, at) })

\* DataPtr when the for loop runs out
ScanExhausted(T) == IF HeaderSize < PrsScanLimit(T) THEN PrsScanLimit(T) ELSE HeaderSize

\* variant of JumpOverBufferSize: a QWORD BufferSize is handled as well
JumpOverBufferSizeQword(prefix) ==
  IF prefix = AML_BYTE_PREFIX THEN 2
  ELSE IF prefix = AML_WORD_PREFIX THEN 3
  ELSE IF prefix = AML_DWORD_PREFIX THEN 5
  ELSE IF prefix = AML_QWORD_PREFIX THEN 9
  ELSE 0

\* "Jump over BufferSize": what is added to NewPkgLength, 0 when the prefix is not handled
JumpOverBufferSize(prefix) ==
  IF prefix = AML_BYTE_PREFIX THEN 2
  ELSE IF prefix = AML_WORD_PREFIX THEN 3
  ELSE IF prefix = AML_DWORD_PREFIX THEN 5
  ELSE 0

\* (*DataPtr & (BIT7|BIT6)) >> 6
ByteDataCount(lead) == lead \div 64

\* NewPkgLength > 63
ExceedsShortForm(NewPkgLength) == NewPkgLength > ShortFormMax

\* variant of ExceedsOriginal: one more interrupt than the template holds is let through
ExceedsOriginalByMore(NewPkgLength, OriginalPkgLength) == NewPkgLength > OriginalPkgLength + 4

\* NewPkgLength > OriginalPkgLength
ExceedsOriginal(NewPkgLength, OriginalPkgLength) == NewPkgLength > OriginalPkgLength

\* OriginalPkgLength of the RESS template
DecodeShortPkgLength(T, D) == T[D]

\* variant of DecodeLongPkgLength: the ByteData is left out
DecodeLongPkgLengthNibble(T, D) == T[D] % 16

\* OriginalPkgLength of the RESL template
DecodeLongPkgLength(T, D) == T[D + 1] * 16 + (T[D] % 16)

\* 1.1 / 1.2: patch PkgLength and BufferSize of the RESS template
PatchShortPkgLength(T, D, NewPkgLength, IrqBuffserSize) ==
  Poke(Poke(T, D, NewPkgLength % 256), D + 2, (IrqBuffserSize + 19) % 256)

\* 2.2: patch BufferSize behind the PkgLength just written
PatchLongBufferSize(T, D, IrqBuffserSize) ==
  Poke(T, D + 2 + ByteDataCount(T[D]), (IrqBuffserSize + 19) % 256)

\* 2.1 / 2.2: patch PkgLength and BufferSize of the RESL template
PatchLongPkgLength(T, D, NewPkgLength, IrqBuffserSize) ==
  PatchLongBufferSize(
    Poke(Poke(T, D, ((T[D] \div 16) * 16) + (NewPkgLength % 16)),
         D + 1, (NewPkgLength \div 16) % 256),
    D, IrqBuffserSize)

\* The locals of UpdatePossibleResource between its steps; ret is "none"
\* while the function has not returned.
Locals(ret, T, flag, DataPtr, DataEndPtr, NewPkgLength, OriginalPkgLength, reads) ==
  [ret |-> ret, Table |-> T, Flag |-> flag, DataPtr |-> DataPtr, DataEndPtr |-> DataEndPtr,
   NewPkgLength |-> NewPkgLength, OriginalPkgLength |-> OriginalPkgLength, Reads |-> reads]

\* 1. from "NewPkgLength += 19 + IrqBuffserSize" to the break
ShortFormPatch(T, IrqBuffserSize, flag, D, Orig, New, reads) ==
  IF ExceedsShortForm(New)
    THEN Locals("none", T, flag, D, D + Orig, New, Orig, reads)
  ELSE IF ExceedsOriginal(New, Orig)
    THEN Locals("EFI_INVALID_PARAMETER", T, flag, D, D + Orig, New, Orig, reads)
  ELSE Locals("none", PatchShortPkgLength(T, D, New, IrqBuffserSize), TRUE,
              D, D + Orig, New, Orig, reads)

\* 1. the body of the if, DataPtr = D behind the name and BufferOp
ShortFormTemplate(T, IrqBuffserSize, flag, D, reads) ==
  IF ByteDataCount(T[D]) # 0
    THEN Locals("EFI_UNSUPPORTED", T, flag, D, 0, 0, 0, reads)
  ELSE IF JumpOverBufferSize(T[D + 1]) = 0
    THEN Locals("EFI_UNSUPPORTED", T, flag, D, D + DecodeShortPkgLength(T, D), 1,
                DecodeShortPkgLength(T, D), reads)
  ELSE ShortFormPatch(T, IrqBuffserSize, flag, D, DecodeShortPkgLength(T, D),
                      1 + JumpOverBufferSize(T[D + 1]) + 19 + IrqBuffserSize, reads)

ShortFormAt(T, IrqBuffserSize, flag, at, reads) ==
  IF at = NotFound
    THEN Locals("none", T, flag, ScanExhausted(T), 0, 0, 0, reads)
    ELSE ShortFormTemplate(T, IrqBuffserSize, flag, at + TPM_PRS_RES_NAME_SIZE + 1, reads)

ShortFormScanned(T, IrqBuffserSize, flag, at) ==
  ShortFormAt(T, IrqBuffserSize, flag, at, FindNameReads(T, at))

\* 1. the loop over TPM_PRS_RESS
ShortFormLoop(T, IrqBuffserSize, flag) ==
  ShortFormScanned(T, IrqBuffserSize, flag, FindName(T, TPM_PRS_RESS))

\* 2. from "NewPkgLength += 19 + IrqBuffserSize" to the break
LongFormPatch(s, IrqBuffserSize, D, Orig, New, reads) ==
  IF ExceedsOriginal(New, Orig)
    THEN Locals("EFI_INVALID_PARAMETER", s.Table, s.Flag, D, D + Orig, New, Orig, reads)
    ELSE Locals("none", PatchLongPkgLength(s.Table, D, New, IrqBuffserSize), FALSE,
                D, D + Orig, New, Orig, reads)

\* 2. "Jump over BufferSize", Skip = NewPkgLength behind the PkgLength
LongFormBufferSize(s, IrqBuffserSize, D, Orig, Skip, reads) ==
  IF JumpOverBufferSize(s.Table[D + Skip]) = 0
    THEN Locals("EFI_UNSUPPORTED", s.Table, s.Flag, D, D + Orig, Skip, Orig, reads)
    ELSE LongFormPatch(s, IrqBuffserSize, D, Orig,
                       Skip + JumpOverBufferSize(s.Table[D + Skip]) + 19 + IrqBuffserSize, reads)

\* 2. the body of the if, DataPtr = D behind the name and BufferOp
LongFormTemplate(s, IrqBuffserSize, D, reads) ==
  IF ByteDataCount(s.Table[D]) = 0
    THEN Locals("EFI_UNSUPPORTED", s.Table, s.Flag, D, s.DataEndPtr, 0, 0, reads)
    ELSE LongFormBufferSize(s, IrqBuffserSize, D, DecodeLongPkgLength(s.Table, D),
                            1 + ByteDataCount(s.Table[D]), reads)

LongFormAt(s, IrqBuffserSize, at, reads) ==
  IF at = NotFound
    THEN Locals("none", s.Table, s.Flag, ScanExhausted(s.Table), s.DataEndPtr, 0, 0, reads)
    ELSE LongFormTemplate(s, IrqBuffserSize, at + TPM_PRS_RES_NAME_SIZE + 1, reads)

LongFormScanned(s, IrqBuffserSize, at) ==
  LongFormAt(s, IrqBuffserSize, at, Higher(s.Reads, FindNameReads(s.Table, at)))

\* 2. the loop over TPM_PRS_RESL, entered with the locals s of step 1
LongFormLoop(s, IrqBuffserSize) ==
  LongFormScanned(s, IrqBuffserSize, FindName(s.Table, TPM_PRS_RESL))

\* if (NewPkgLength > 63) { 2. }
SelectTemplate(s, IrqBuffserSize) ==
  IF s.ret = "none" /\ ExceedsShortForm(s.NewPkgLength)
    THEN LongFormLoop(s, IrqBuffserSize)
    ELSE s

\* DataPtr >= Table + Table->Length - (...): the function reports EFI_NOT_FOUND
ReportsNotFound(T, DataPtr) == DataPtr >= PrsScanLimit(T)

\* variant of InterruptDescriptorPtr: one byte behind the interrupt descriptor
InterruptDescriptorPtrShifted(DataPtr, NewPkgLength, IrqBuffserSize) ==
  DataPtr + NewPkgLength - (5 + IrqBuffserSize + 1)

\* 3. DataPtr moved to the interrupt descriptor
InterruptDescriptorPtr(DataPtr, NewPkgLength, IrqBuffserSize) ==
  DataPtr + NewPkgLength - (5 + IrqBuffserSize + 2)

\* variant of PatchInterruptDescriptor: the interrupt table length counts bytes
PatchInterruptDescriptorBytes(T, DataPtr, IrqBuffer, IrqBuffserSize) ==
  CopyMem(Poke(Poke(T, DataPtr + 1, (2 + IrqBuffserSize) % 256),
               DataPtr + 4, IrqBuffserSize % 256),
          DataPtr + 5, IrqBuffer, IrqBuffserSize)

\* 3.1 - 3.3: length, interrupt table length, interrupt numbers
PatchInterruptDescriptor(T, DataPtr, IrqBuffer, IrqBuffserSize) ==
  CopyMem(Poke(Poke(T, DataPtr + 1, (2 + IrqBuffserSize) % 256),
               DataPtr + 4, (IrqBuffserSize \div 4) % 256),
          DataPtr + 5, IrqBuffer, IrqBuffserSize)

\* 4. the End Tag behind the interrupt descriptor at DataPtr
PatchEndTag(T, DataPtr, IrqBuffserSize) ==
  Poke(Poke(T, DataPtr + 5 + IrqBuffserSize, ACPI_END_TAG_DESCRIPTOR),
       DataPtr + 5 + IrqBuffserSize + 1, 0)

\* 5. the rest of the template stuffed with NoOp, DataPtr behind the End Tag
StuffNoop(T, DataPtr, DataEndPtr) ==
  IF DataPtr < DataEndPtr THEN SetMem(T, DataPtr, DataEndPtr - DataPtr, AML_NOOP_OP) ELSE T

\* 3. - 5. with DataPtr at the interrupt descriptor
PatchByteList(T, DataPtr, DataEndPtr, IrqBuffer, IrqBuffserSize) ==
  StuffNoop(PatchEndTag(PatchInterruptDescriptor(T, DataPtr, IrqBuffer, IrqBuffserSize),
                        DataPtr, IrqBuffserSize),
            DataPtr + 5 + IrqBuffserSize + 2, DataEndPtr)

PrsOutcome(st, T, flag, reads) == [Status |-> st, Table |-> T, Flag |-> flag, Reads |-> reads]

\* from the EFI_NOT_FOUND test to the end, s the locals left by steps 1 and 2
PatchTemplate(s, IrqBuffer, IrqBuffserSize) ==
  IF s.ret # "none"
    THEN PrsOutcome(s.ret, s.Table, s.Flag, s.Reads)
  ELSE IF ReportsNotFound(s.Table, s.DataPtr)
    THEN PrsOutcome("EFI_NOT_FOUND", s.Table, s.Flag, s.Reads)
  ELSE PrsOutcome("EFI_SUCCESS",
                  PatchByteList(s.Table,
                                InterruptDescriptorPtr(s.DataPtr, s.NewPkgLength, IrqBuffserSize),
                                s.DataEndPtr, IrqBuffer, IrqBuffserSize),
                  s.Flag, s.Reads)

UpdatePossibleResource(T, IrqBuffer, IrqBuffserSize, flag) ==
  PatchTemplate(SelectTemplate(ShortFormLoop(T, IrqBuffserSize, flag), IrqBuffserSize),
                IrqBuffer, IrqBuffserSize)

---------------------------------------------------------------------------
(* The SSDT handed to PublishAcpiTable by GetSectionFromFv.  It is AML as   *)
(* the comment in UpdatePossibleResource lays it out:                       *)
(*   Name RESS/RESL, BufferOp, PkgLength, BufferSize, ByteList              *)
(* with ByteList = Memory32Fixed (12) + Interrupt (5 + 4n) + End Tag (2).   *)
(* PkgLength counts itself, BufferSize and ByteList; BufferSize counts      *)
(* ByteList.  A configuration of a template is [c, tag, lt, more]: c =      *)
(* number of ByteData after the PkgLeadByte (0 = short form), tag = the     *)
(* integer prefix of BufferSize, lt = bytes of interrupt numbers in the     *)
(* template, more = data bytes of a vendor-defined descriptor between the   *)
(* Interrupt descriptor and the End Tag (0 = no such descriptor).           *)

BufferSizeBytes(tag) ==
  CASE tag = AML_BYTE_PREFIX  -> 2
    [] tag = AML_WORD_PREFIX  -> 3
    [] tag = AML_DWORD_PREFIX -> 5
    [] tag = AML_QWORD_PREFIX -> 9

\* PkgLength of the template: PkgLength bytes + BufferSize bytes + ByteList bytes
TemplatePkgLength(cfg) ==
  1 + cfg.c + BufferSizeBytes(cfg.tag) + 19 + cfg.lt + (IF cfg.more = 0 THEN 0 ELSE 3 + cfg.more)

\* PkgLength := PkgLeadByte | <PkgLeadByte ByteData ...>
EncodePkgLength(n, c) ==
  IF c = 0 THEN << n >>
  ELSE << c * 64 + (n % 16) >> \o [i \in 1..c |-> (n \div (16 * Pow(256, i - 1))) % 256]

\* BufferSize := BytePrefix ByteData | WordPrefix WordData | DWordPrefix DWordData | ...
EncodeInteger(tag, n) ==
  CASE tag = AML_BYTE_PREFIX  -> << tag, n % 256 >>
    [] tag = AML_WORD_PREFIX  -> << tag, n % 256, (n \div 256) % 256 >>
    [] tag = AML_DWORD_PREFIX -> << tag >> \o LE32(n)
    [] tag = AML_QWORD_PREFIX -> << tag >> \o LE32(n) \o << 0, 0, 0, 0 >>

\* Memory32Fixed (ReadWrite, 0xFED40000, 0x5000)
Memory32Fixed == << 134, 9, 0, 1, 0, 0, 212, 254 >> \o LE32(20480)

\* Interrupt (ResourceConsumer, Level, ActiveLow, Shared, , , ) {1, 2, ...}
InterruptDescriptor(lt) ==
  << 137, (2 + lt) % 256, (2 + lt) \div 256, 29, lt \div 4 >>
    \o [i \in 1..lt |-> IF (i - 1) % 4 = 0 THEN (i - 1) \div 4 + 1 ELSE 0]

\* VendorLong () {...}: a large resource descriptor with n data bytes, none when n = 0
VendorDescriptor(n) ==
  IF n = 0 THEN << >> ELSE << 132, n % 256, n \div 256 >> \o Fill(n, 0)

\* bytes of the ByteList
ByteListSize(cfg) == 19 + cfg.lt + Len(VendorDescriptor(cfg.more))

ResourceTemplate(name, cfg) ==
  name \o << AML_BUFFER_OP >>
       \o EncodePkgLength(TemplatePkgLength(cfg), cfg.c)
       \o EncodeInteger(cfg.tag, ByteListSize(cfg))
       \o Memory32Fixed \o InterruptDescriptor(cfg.lt)
       \o VendorDescriptor(cfg.more)
       \o << ACPI_END_TAG_DESCRIPTOR, 0 >>

PvString == << AML_STRING_PREFIX >> \o PHYSICAL_PRESENCE_VERSION_TAG \o << 0 >>
HidString == << AML_STRING_PREFIX >> \o TPM_HID_TAG \o << 0 >>
\* the tag as the last bytes of the table, its NUL lying behind the table
HidStringCut == << AML_STRING_PREFIX >> \o TPM_HID_TAG

EFI_ACPI_DESCRIPTION_HEADER(len) ==
  << 83, 83, 68, 84 >> \o LE32(len) \o << 2 >> \o Fill(27, 0)

\* A layout: which objects the table holds and in which order.
\*   pv, hid: "none" | "front" | "end" (hid also "cut"), ress, resl: a
\*   template configuration or NoTemplate, order: "SL" | "LS", tail: bytes of
\*   other AML behind the templates, beyond: the value of the bytes behind
\*   the table.
NoTemplate == [c |-> 0, tag |-> 0, lt |-> 0, more |-> 0]

TableBody(lay) ==
  LET s == IF lay.ress = NoTemplate THEN << >> ELSE ResourceTemplate(TPM_PRS_RESS, lay.ress)
      l == IF lay.resl = NoTemplate THEN << >> ELSE ResourceTemplate(TPM_PRS_RESL, lay.resl)
  IN  (IF lay.pv = "front" THEN PvString ELSE << >>)
        \o (IF lay.hid = "front" THEN HidString ELSE << >>)
        \o (IF lay.order = "SL" THEN s \o l ELSE l \o s)
        \o Fill(lay.tail, 255)
        \o (IF lay.pv = "end" THEN PvString ELSE << >>)
        \o (CASE lay.hid = "end" -> HidString
              [] lay.hid = "cut" -> HidStringCut
              [] OTHER -> << >>)

BuildTable(lay) ==
  LET body == TableBody(lay)
  IN  ToMem(EFI_ACPI_DESCRIPTION_HEADER(HeaderSize + Len(body)) \o body \o Fill(Slack, lay.beyond))

\* Templates of the RESS name: the short form whenever the template fits it,
\* one long-form template (more interrupts than a short form holds).
RessTemplates ==
  { cfg \in [c : {0}, tag : {AML_BYTE_PREFIX, AML_WORD_PREFIX, AML_DWORD_PREFIX, AML_QWORD_PREFIX},
             lt : {4, 40}, more : {0}] : TemplatePkgLength(cfg) <= ShortFormMax }
    \cup { [c |-> 1, tag |-> AML_BYTE_PREFIX, lt |-> 44, more |-> 0], NoTemplate }

\* Templates of the RESL name: long forms with 1..3 ByteData, one of them
\* with ManyInterrupts interrupts, one short form.
ReslTemplates ==
  [c : {1, 2, 3}, tag : {AML_BYTE_PREFIX, AML_WORD_PREFIX}, lt : {60}, more : {0}]
    \cup [c : {1}, tag : {AML_DWORD_PREFIX, AML_QWORD_PREFIX}, lt : {60}, more : {0}]
    \cup { [c |-> 1, tag |-> AML_BYTE_PREFIX, lt |-> 44, more |-> 0],
           [c |-> 1, tag |-> AML_WORD_PREFIX, lt |-> 4 * ManyInterrupts, more |-> 0],
           [c |-> 0, tag |-> AML_BYTE_PREFIX, lt |-> 8, more |-> 0], NoTemplate }

\* PcdTpm2PossibleIrqNumBuf of n bytes: UINT32 values 0x0120, 0x0121, ...
IrqBytes(n) ==
  [i \in 1..n |-> CASE (i - 1) % 4 = 0 -> 32 + (i - 1) \div 4
                    [] (i - 1) % 4 = 1 -> 1
                    [] OTHER -> 0]

IrqSizes == { 4 * k : k \in 0..16 } \cup { 6 }

ResourceLayouts ==
  { lay \in [pv : {"front"}, hid : {"front"}, ress : RessTemplates, resl : ReslTemplates,
             order : {"SL", "LS"}, tail : {0, TailPad}, beyond : {0}] :
      lay.order = "LS" => lay.tail = 0 }

\* a RESL template of 4 KB and more: its PkgLength needs the second ByteData
LargeLayouts ==
  [pv : {"front"}, hid : {"front"},
   ress : {[c |-> 0, tag |-> AML_BYTE_PREFIX, lt |-> 40, more |-> 0]},
   resl : {[c |-> 2, tag |-> AML_WORD_PREFIX, lt |-> 60, more |-> VendorData]},
   order : {"SL"}, tail : {TailPad}, beyond : {0}]

\* the byte behind the table matters only when the tag is cut off by the table's end
StringLayouts ==
  { lay \in [pv : {"none", "front", "end"}, hid : {"none", "front", "end", "cut"},
             ress : {[c |-> 0, tag |-> AML_BYTE_PREFIX, lt |-> 40, more |-> 0]},
             resl : {[c |-> 1, tag |-> AML_BYTE_PREFIX, lt |-> 60, more |-> 0]},
             order : {"SL"}, tail : {TailPad}, beyond : {0, 90}] :
      lay.beyond # 0 => lay.hid = "cut" }

\* TPM_PT_MANUFACTURER as it lies in memory ("IFX\0", "STM ", "MSFT"), and
\* TPM_PT_FIRMWARE_VERSION_1 as <<high 16 bits, low 16 bits>>; the two
\* Tpm2GetCapability calls may fail
TpmAnswers ==
  [ManufacturerID : { << 73, 70, 88, 0 >>, << 83, 84, 77, 32 >>, << 77, 83, 70, 84 >> },
   ManufacturerStatus : {"EFI_SUCCESS"},
   FirmwareVersion1 : { << 7, 85 >>, << 123, 4 >> },
   FirmwareStatus : {"EFI_SUCCESS"}]
    \cup [ManufacturerID : { << 73, 70, 88, 0 >> },
          ManufacturerStatus : {"EFI_SUCCESS", "EFI_DEVICE_ERROR"},
          FirmwareVersion1 : { << 7, 85 >> },
          FirmwareStatus : {"EFI_DEVICE_ERROR"}]

\* PcdTpm2CurrentIrqNum and the answer of InstallAcpiTable
Environments == { << 5, "EFI_SUCCESS" >>, << 0, "EFI_SUCCESS" >>, << 5, "EFI_OUT_OF_RESOURCES" >> }

\* "1.3", "1.2", "1", "" and "1.30"
PPVers == { << 49, 46, 51 >>, << 49, 46, 50 >>, << 49 >>, << >>, << 49, 46, 51, 48 >> }

InitCommon ==
  /\ Entry = Table
  /\ pc = "UpdatePPVersion"
  /\ Called = "none"
  /\ Status = "EFI_SUCCESS"
  /\ IsShortFormPkgLength = FALSE
  /\ ReadMax = NoRead
  /\ Failed = {}
  /\ Published = FALSE
  /\ AssertHalts \in BOOLEAN

\* the interrupt templates under every layout and every buffer size
InitResource ==
  /\ \E lay \in ResourceLayouts \cup LargeLayouts : Table = BuildTable(lay)
  /\ PPVer = << 49, 46, 51 >>
  /\ Tpm = [ManufacturerID |-> << 73, 70, 88, 0 >>, ManufacturerStatus |-> "EFI_SUCCESS",
            FirmwareVersion1 |-> << 7, 85 >>, FirmwareStatus |-> "EFI_SUCCESS"]
  /\ CurrentIrqNum = 5
  /\ \E n \in IrqSizes : PossibleIrqNumBuf = IrqBytes(n)
  /\ InstallStatus = "EFI_SUCCESS"

\* the string tags under every placement, version string and TPM answer
InitString ==
  /\ \E lay \in StringLayouts : Table = BuildTable(lay)
  /\ PPVer \in PPVers
  /\ Tpm \in TpmAnswers
  /\ \E env \in Environments : CurrentIrqNum = env[1] /\ InstallStatus = env[2]
  /\ PossibleIrqNumBuf = IrqBytes(8)

Init == (InitResource \/ InitString) /\ InitCommon

---------------------------------------------------------------------------
(* PublishAcpiTable, one action per call it makes *)

Inputs == << PPVer, Tpm, CurrentIrqNum, PossibleIrqNumBuf, InstallStatus, AssertHalts >>

\* ASSERT (!failed): where PublishAcpiTable is afterwards, next being the
\* statement behind the ASSERT
AfterAssert(failed, next) == IF AssertHalts /\ failed THEN "CpuDeadLoop" ELSE next

Report(name, st) == IF EFI_ERROR(st) THEN Failed \cup {name} ELSE Failed

\* what PublishAcpiTable keeps of a call of patch function name that left r
Returned(name, r) ==
  /\ Table' = r.Table
  /\ Status' = r.Status
  /\ ReadMax' = r.Reads
  /\ Failed' = Report(name, r.Status)
  /\ Entry' = Table
  /\ Called' = name

\* Status = UpdatePPVersion (Table, PcdGetPtr (...)); ASSERT_EFI_ERROR (Status);
CallUpdatePPVersion ==
  /\ pc = "UpdatePPVersion"
  /\ Returned("UpdatePPVersion", UpdatePPVersion(Table, PPVer))
  /\ pc' = AfterAssert(EFI_ERROR(Status'), "UpdateHID")
  /\ UNCHANGED << IsShortFormPkgLength, Published, Inputs >>

\* variant of HidNextPc: the status of UpdateHID is not looked at
HidNextPcIgnored(st) == "PossibleResource"

\* Status = UpdateHID (Table); if (EFI_ERROR (Status)) return Status;
HidNextPc(st) == IF EFI_ERROR(st) THEN "Return" ELSE "PossibleResource"

\* ASSERT (FALSE) of UpdateHID: a Tpm2GetCapability call failed
HidAsserts(tpm) == EFI_ERROR(tpm.ManufacturerStatus) \/ EFI_ERROR(tpm.FirmwareStatus)

CallUpdateHID ==
  /\ pc = "UpdateHID"
  /\ Returned("UpdateHID", UpdateHID(Table, Tpm))
  /\ pc' = AfterAssert(HidAsserts(Tpm), HidNextPc(Status'))
  /\ UNCHANGED << IsShortFormPkgLength, Published, Inputs >>

\* (PossibleIrqNumBufSize <= MAX_PRS_INT_BUF_SIZE) && ((PossibleIrqNumBufSize % sizeof (UINT32)) == 0)
IrqBufSizeOk(size) == size <= MAX_PRS_INT_BUF_SIZE /\ size % 4 = 0

\* ASSERT (FALSE) of UpdatePossibleResource: in front of every return of
\* EFI_UNSUPPORTED and EFI_INVALID_PARAMETER
PrsAsserts(st) == st \in {"EFI_UNSUPPORTED", "EFI_INVALID_PARAMETER"}

ReturnedFlag(r) == IsShortFormPkgLength' = r.Flag /\ Returned("UpdatePossibleResource", r)

CallUpdatePossibleResource ==
  /\ pc = "PossibleResource"
  /\ CurrentIrqNum # 0
  /\ IrqBufSizeOk(Len(PossibleIrqNumBuf))
  /\ ReturnedFlag(UpdatePossibleResource(Table, PossibleIrqNumBuf, Len(PossibleIrqNumBuf),
                                         IsShortFormPkgLength))
  /\ pc' = AfterAssert(PrsAsserts(Status'), "Install")
  /\ UNCHANGED << Published, Inputs >>

\* PcdGet32 (PcdTpm2CurrentIrqNum) == 0: _PRS is not patched
SkipNoInterrupt ==
  /\ pc = "PossibleResource"
  /\ CurrentIrqNum = 0
  /\ pc' = "Install"
  /\ UNCHANGED << Table, Entry, Called, Status, IsShortFormPkgLength, ReadMax, Failed,
                  Published, Inputs >>

\* the size of PcdTpm2PossibleIrqNumBuf "is not correct": _PRS is not patched
SkipBadIrqBufSize ==
  /\ pc = "PossibleResource"
  /\ CurrentIrqNum # 0
  /\ ~IrqBufSizeOk(Len(PossibleIrqNumBuf))
  /\ pc' = "Install"
  /\ UNCHANGED << Table, Entry, Called, Status, IsShortFormPkgLength, ReadMax, Failed,
                  Published, Inputs >>

\* Status = AcpiTable->InstallAcpiTable (AcpiTable, Table, TableSize, &TableKey);
\* ASSERT_EFI_ERROR (Status); return Status;
CallInstallAcpiTable ==
  /\ pc = "Install"
  /\ Published' = TRUE
  /\ Status' = InstallStatus
  /\ pc' = AfterAssert(EFI_ERROR(InstallStatus), "Return")
  /\ UNCHANGED << Table, Entry, Called, IsShortFormPkgLength, ReadMax, Failed, Inputs >>

Next ==
  \/ CallUpdatePPVersion
  \/ CallUpdateHID
  \/ CallUpdatePossibleResource
  \/ SkipNoInterrupt
  \/ SkipBadIrqBufSize
  \/ CallInstallAcpiTable

Spec == Init /\ [][Next]_vars

---------------------------------------------------------------------------
(* The PkgLength steps of UpdatePossibleResource on their own: a PkgLength  *)
(* of any encoding at offset 0 of a few bytes of memory is decoded as the   *)
(* function decodes OriginalPkgLength and patched with that value as        *)
(* NewPkgLength, which is what the function does when the new size is the   *)
(* original one.                                                            *)

\* values of a ByteData
ByteDataValues == {0, 1, 15, 16, 255}

\* every PkgLeadByte, followed by the ByteData it announces
PkgLengths ==
  { << lead >> : lead \in 0..63 }
    \cup { << lead, b1 >> : lead \in 64..127, b1 \in ByteDataValues }
    \cup { << lead, b1, b2 >> : lead \in 128..191, b1 \in ByteDataValues, b2 \in ByteDataValues }
    \cup { << lead, b1, b2, b3 >> : lead \in 192..255, b1 \in ByteDataValues,
                                     b2 \in ByteDataValues, b3 \in ByteDataValues }

\* the PkgLength, then BufferSize as a DWORD
CodecMemory(pkg) == ToMem(pkg \o << AML_DWORD_PREFIX, 79, 0, 0, 0 >>)

InitCodec ==
  /\ \E pkg \in PkgLengths : Table = CodecMemory(pkg)
  /\ Entry = Table
  /\ pc = "PkgLength"
  /\ Called = "none"
  /\ Status = "EFI_SUCCESS"
  /\ IsShortFormPkgLength = FALSE
  /\ ReadMax = NoRead
  /\ Failed = {}
  /\ Published = FALSE
  /\ AssertHalts = FALSE
  /\ PPVer = << >>
  /\ Tpm = [ManufacturerID |-> << 73, 70, 88, 0 >>, ManufacturerStatus |-> "EFI_SUCCESS",
            FirmwareVersion1 |-> << 7, 85 >>, FirmwareStatus |-> "EFI_SUCCESS"]
  /\ CurrentIrqNum = 5
  /\ PossibleIrqNumBuf = IrqBytes(60)
  /\ InstallStatus = "EFI_SUCCESS"

\* 1.1 / 1.2 or 2.1 / 2.2 with NewPkgLength = OriginalPkgLength
PatchSamePkgLength(T, D, IrqBuffserSize) ==
  IF ByteDataCount(T[D]) = 0
    THEN PatchShortPkgLength(T, D, DecodeShortPkgLength(T, D), IrqBuffserSize)
    ELSE PatchLongPkgLength(T, D, DecodeLongPkgLength(T, D), IrqBuffserSize)

Reencode ==
  /\ pc = "PkgLength"
  /\ Table' = PatchSamePkgLength(Table, 0, Len(PossibleIrqNumBuf))
  /\ Entry' = Table
  /\ pc' = "PkgLengthPatched"
  /\ UNCHANGED << Called, Status, IsShortFormPkgLength, ReadMax, Failed, Published, Inputs >>

NextCodec == Reencode

SpecCodec == InitCodec /\ [][NextCodec]_vars

---------------------------------------------------------------------------
(* Vocabulary of the properties, read off a table T as the specification    *)
(* describes it: the anchor, the Size Field behind the name and the opcode  *)
(* byte, the Payload Header behind the Size Field, the payload.             *)

\* the first offset of the scanned range at which name stands, NotFound when none
Anchor(T, name) ==
  FirstOf({ p \in HeaderSize..(TableLength(T) - 28) : \A i \in 1..4 : T[p + i - 1] = name[i] })

Located(T, name) == Anchor(T, name) # NotFound

\* start of the Size Field of the region called name
SizeField(T, name) == Anchor(T, name) + 5

\* extra bytes of the Size Field at sf: the top two bits of its header byte
ExtraBytes(T, sf) == T[sf] \div 64

SizeFieldBytes(T, sf) == 1 + ExtraBytes(T, sf)

\* the value of the Size Field: low 6 bits (short form), low nibble combined
\* with the extra bytes, little-endian (long form)
RECURSIVE ExtraValue(_, _, _)
ExtraValue(T, sf, n) ==
  IF n = 0 THEN 0 ELSE ExtraValue(T, sf, n - 1) + T[sf + n] * Pow(256, n - 1)

DecodedSize(T, sf) ==
  IF ExtraBytes(T, sf) = 0 THEN T[sf] % 64
  ELSE (T[sf] % 16) + 16 * ExtraValue(T, sf, ExtraBytes(T, sf))

\* offset of the width tag of the Payload Header
WidthTag(T, sf) == sf + SizeFieldBytes(T, sf)

\* bytes of the Payload Header, tag included; 0 for a tag that is not recognized
PayloadHeaderBytes(T, sf) ==
  CASE T[WidthTag(T, sf)] = AML_BYTE_PREFIX  -> 2
    [] T[WidthTag(T, sf)] = AML_WORD_PREFIX  -> 3
    [] T[WidthTag(T, sf)] = AML_DWORD_PREFIX -> 5
    [] OTHER -> 0

TagRecognized(T, sf) == PayloadHeaderBytes(T, sf) # 0

\* Size Field bytes + Payload Header bytes + 19 + L
NewSize(T, sf, L) == SizeFieldBytes(T, sf) + PayloadHeaderBytes(T, sf) + 19 + L

\* end of the region: Size Field start + decoded size
RegionEnd(T, sf) == sf + DecodedSize(T, sf)

\* the interrupt descriptor: 12 bytes behind the end of the Payload Header
Descriptor(T, sf) == sf + SizeFieldBytes(T, sf) + PayloadHeaderBytes(T, sf) + 12

\* the state in which UpdatePossibleResource has just returned Status, having
\* been entered with the table Entry, the flag FALSE and L bytes of interrupts
PrsReturned == pc = "Install" /\ Called = "UpdatePossibleResource"
PrsSucceeded == PrsReturned /\ Status = "EFI_SUCCESS"

\* the state in which an ASSERT of UpdatePossibleResource has stopped the
\* processor, Status being what the return behind the ASSERT would have returned
PrsStopped == pc = "CpuDeadLoop" /\ Called = "UpdatePossibleResource"
L == Len(PossibleIrqNumBuf)

\* a RESS region with a short-form Size Field and a recognized width tag
ShortRegion(T) ==
  /\ Located(T, TPM_PRS_RESS)
  /\ ExtraBytes(T, SizeField(T, TPM_PRS_RESS)) = 0
  /\ TagRecognized(T, SizeField(T, TPM_PRS_RESS))

\* a RESL region with a long-form Size Field and a recognized width tag
LongRegion(T) ==
  /\ Located(T, TPM_PRS_RESL)
  /\ ExtraBytes(T, SizeField(T, TPM_PRS_RESL)) # 0
  /\ TagRecognized(T, SizeField(T, TPM_PRS_RESL))

ShortNew == NewSize(Entry, SizeField(Entry, TPM_PRS_RESS), L)
LongNew == NewSize(Entry, SizeField(Entry, TPM_PRS_RESL), L)
ShortOrig == DecodedSize(Entry, SizeField(Entry, TPM_PRS_RESS))
LongOrig == DecodedSize(Entry, SizeField(Entry, TPM_PRS_RESL))

\* the Size Field of the region a successful call patched
Patched ==
  IF ShortNew <= ShortFormMax THEN SizeField(Entry, TPM_PRS_RESS)
  ELSE SizeField(Entry, TPM_PRS_RESL)

\* T1 and T2 agree on the offsets from..to-1
Same(T1, T2, from, to) == \A i \in from..(to - 1) : T1[i] = T2[i]

\* the region called name, from its anchor to its end, is the same in Table as in Entry
Untouched(name) ==
  Located(Entry, name) =>
    Same(Table, Entry, Anchor(Entry, name), RegionEnd(Entry, SizeField(Entry, name)))

---------------------------------------------------------------------------
\* C1: after a successful UpdatePossibleResource with an interrupt list of L
\* bytes, the interrupt descriptor of the patched region has length byte
\* 2 + L at offset 1, entry count L / 4 at offset 4, the bytes of IrqBuffer
\* in order from offset 5 and the terminator (0x79, 0x00) right behind them.
C1_DescriptorRewritten ==
  PrsSucceeded =>
    /\ L \in { 4 * k : k \in 0..15 }
    /\ Table[Descriptor(Entry, Patched) + 1] = 2 + L
    /\ Table[Descriptor(Entry, Patched) + 4] = L \div 4
    /\ \A i \in 1..L : Table[Descriptor(Entry, Patched) + 4 + i] = PossibleIrqNumBuf[i]
    /\ Table[Descriptor(Entry, Patched) + 5 + L] = 121
    /\ Table[Descriptor(Entry, Patched) + 5 + L + 1] = 0

\* a successful call with the longest list, which differs from the template's
C1_Witness ==
  /\ PrsSucceeded
  /\ L = 60
  /\ Table[Descriptor(Entry, Patched) + 5] # Entry[Descriptor(Entry, Patched) + 5]

\* C2: a successful UpdatePossibleResource leaves Table->Length as it was,
\* its terminator ends at or before the original end of the region, and every
\* byte behind the terminator up to that end is AML_NOOP_OP.
C2_LengthKeptRestIsFiller ==
  PrsSucceeded =>
    /\ TableLength(Table) = TableLength(Entry)
    /\ Patched + NewSize(Entry, Patched, L) <= RegionEnd(Entry, Patched)
    /\ \A i \in (Patched + NewSize(Entry, Patched, L))..(RegionEnd(Entry, Patched) - 1) :
         Table[i] = 163

\* C3: on a table with a RESS region (short form) and a RESL region (long
\* form): if the new size of the RESS region is at most 63 and fits, the RESS
\* region is the one written and the flag is TRUE; if it exceeds 63 and the
\* new size of the RESL region fits, the RESL region is the one written and the
\* flag is FALSE; after every successful call the flag tells which region was
\* written and the other region is untouched.
C3_PathSelection ==
  PrsReturned =>
    /\ (ShortRegion(Entry) /\ LongRegion(Entry) /\ ShortNew <= 63 /\ ShortNew <= ShortOrig) =>
         /\ IsShortFormPkgLength = TRUE
         /\ DecodedSize(Table, SizeField(Entry, TPM_PRS_RESS)) = ShortNew
         /\ Untouched(TPM_PRS_RESL)
    /\ (ShortRegion(Entry) /\ LongRegion(Entry) /\ ShortNew > 63 /\ LongNew <= LongOrig) =>
         /\ Status = "EFI_SUCCESS"
         /\ IsShortFormPkgLength = FALSE
         /\ DecodedSize(Table, SizeField(Entry, TPM_PRS_RESL)) = LongNew
         /\ Untouched(TPM_PRS_RESS)
    /\ Status = "EFI_SUCCESS" =>
         /\ IsShortFormPkgLength = (Patched = SizeField(Entry, TPM_PRS_RESS))
         /\ DecodedSize(Table, Patched) = NewSize(Entry, Patched, L)
         /\ IsShortFormPkgLength => Untouched(TPM_PRS_RESL)
         /\ ~IsShortFormPkgLength => Untouched(TPM_PRS_RESS)

\* the call was entered with the flag FALSE and returned with nothing written
NothingWritten == Table = Entry /\ IsShortFormPkgLength = FALSE

\* the Size Field of the region called name does not decode larger than at entry
NotGrown(name) ==
  Located(Entry, name) =>
    DecodedSize(Table, SizeField(Entry, name)) <= DecodedSize(Entry, SizeField(Entry, name))

AnchorMissing ==
  \/ ~Located(Entry, TPM_PRS_RESS)
  \/ ShortRegion(Entry) /\ ShortNew > 63 /\ ~Located(Entry, TPM_PRS_RESL)

\* C6: UpdatePossibleResource returns EFI_NOT_FOUND if and only if the anchor
\* it needs is matched nowhere in the scanned range (data start up to
\* Table->Length - 27); when it returns EFI_NOT_FOUND no byte has been written.
C6_NotFoundIffAnchorMissing ==
  PrsReturned =>
    /\ (Status = "EFI_NOT_FOUND") = AnchorMissing
    /\ Status = "EFI_NOT_FOUND" => Table = Entry

\* C7: in each of the three anchor scans every byte read while comparing the
\* table against the marker lies at an offset below Table->Length.
C7_ScansStayInside ==
  Called # "none" => ReadMax < TableLength(Entry)

\* bytes of the fixed-location descriptor and of the interrupt descriptor's
\* type and flags in the region whose Size Field is at sf
KeptInside(T, sf) ==
  (sf + SizeFieldBytes(T, sf) + PayloadHeaderBytes(T, sf))..(Descriptor(T, sf) - 1)
    \cup { Descriptor(T, sf), Descriptor(T, sf) + 2, Descriptor(T, sf) + 3 }

TagAnchor(T, tag, from, last) ==
  FirstOf({ p \in from..last :
              /\ \A i \in 1..Len(tag) : T[p + i - 1] = tag[i]
              /\ T[p + Len(tag)] = 0 })

\* the field of width bytes at a holds str, its NUL, and filler behind it,
\* and Table is Entry everywhere else
FieldHolds(a, width, str) ==
  \A i \in DOMAIN Table :
    Table[i] = IF i < a \/ i >= a + width THEN Entry[i]
               ELSE IF i - a < Len(str) THEN str[i - a + 1]
               ELSE IF i - a = Len(str) THEN 0
               ELSE 163

\* the identifier UpdateHID is to write: 3 letters when the top byte of the
\* manufacturer ID is 0x00 or 0x20, else 4, then the firmware version digits
HidExpected ==
  IF Tpm.ManufacturerID[4] \in {0, 32}
    THEN SubSeq(Tpm.ManufacturerID, 1, 3)
           \o SubSeq(Format02d(Tpm.FirmwareVersion1[1]) \o Format02d(Tpm.FirmwareVersion1[2]), 1, 4)
    ELSE Tpm.ManufacturerID
           \o SubSeq(Format02d(Tpm.FirmwareVersion1[1]) \o Format02d(Tpm.FirmwareVersion1[2]), 1, 4)

\* C10: after a successful UpdatePPVersion the 4-byte "$PV" field holds the
\* version string and its NUL, after a successful UpdateHID the 9-byte
\* "NNNN0000" field holds the 7-character identifier (manufacturer ID top byte
\* 0x00 or 0x20) or the 8-character one and its NUL; every byte of the field
\* behind the NUL is AML_NOOP_OP and no byte outside the field is changed.
C10_FieldRewrittenAndPadded ==
  /\ (Called = "UpdatePPVersion" /\ Status = "EFI_SUCCESS") =>
       FieldHolds(TagAnchor(Entry, << 36, 80, 86 >>, HeaderSize, TableLength(Entry) - 4), 4, PPVer)
  /\ (Called = "UpdateHID" /\ pc = "PossibleResource") =>
       FieldHolds(TagAnchor(Entry, << 78, 78, 78, 78, 48, 48, 48, 48 >>, HeaderSize,
                            TableLength(Entry) - 8),
                  9, HidExpected)

\* the Payload Header of the region whose Size Field is at sf, read as a
\* little-endian integer of the 1, 2 or 4 data bytes its width tag selects
PayloadSize(T, sf) == ExtraValue(T, WidthTag(T, sf), PayloadHeaderBytes(T, sf) - 1)

\* C12: after every successful UpdatePossibleResource the Payload Header
\* (BufferSize) of the patched region, read at the full width its width tag
\* selects, equals L + 19, and the width tag is the one it was.
C12_BufferSizeIsPayloadLength ==
  PrsSucceeded =>
    /\ PayloadSize(Table, Patched) = L + 19
    /\ Table[WidthTag(Entry, Patched)] = Entry[WidthTag(Entry, Patched)]

\* C11: after every successful UpdatePossibleResource the Size Field of the
\* patched region, decoded from its header byte and all the extra bytes the
\* header's top two bits announce, equals the new size, and the top two bits
\* of the header byte are the ones they were.
C11_SizeFieldDecodesNewSize ==
  PrsSucceeded =>
    /\ DecodedSize(Table, Patched) = NewSize(Entry, Patched, L)
    /\ ExtraBytes(Table, Patched) = ExtraBytes(Entry, Patched)

\* C13: for every short-form byte and every long-form encoding of a Size
\* Field (1 to 3 extra bytes), decoding it and writing the decoded value back
\* leaves every byte of the Size Field as it was.
C13_SizeFieldRoundTrip ==
  pc = "PkgLengthPatched" =>
    \A i \in 0..ExtraBytes(Entry, 0) : Table[i] = Entry[i]

\* a long form of 3 extra bytes, the bits 5-4 of its header byte set, written back
C13_Witness ==
  /\ pc = "PkgLengthPatched"
  /\ Entry[0] = 255
  /\ Entry[1] = 255 /\ Entry[2] = 1 /\ Entry[3] = 16

=============================================================================
